---- MODULE Spec2Model ----
(***************************************************************************)
(* Model of baseapp/runtime/module.go: the appBuilder, the scoped store-key *)
(* providers and the AppCreator (RegisterModules, Create, Finish).          *)
(*                                                                         *)
(* External collaborators (the base engine, the snapshot store, the option *)
(* source) are modelled by the outcomes the code distinguishes: Create     *)
(* either panics at one of its three panic sites or builds an App, and     *)
(* LoadLatestVersion returns nil or one of the engine's errors.            *)
(*                                                                         *)
(* The provider registry that init() registers the providers with (the     *)
(* container package) is modelled from its specified contract: register    *)
(* with duplicate detection, and a memoizing depth-first resolve that is   *)
(* one step per dependency visited and per factory invoked.                *)
(***************************************************************************)
EXTENDS Integers, Sequences, FiniteSets, TLC

\* ---------------------------------------------------------------- bounds
MaxHooks == 2      \* longest BeginBlockers list of a configuration
MaxCall  == 2      \* most modules passed to one RegisterModules call
MaxKeys  == 2      \* most store keys requested from the providers
MaxApps  == 2      \* most Apps built by Create in one run

\* ------------------------------------------------------------ value sets
\* Module implementations (module.AppModule values) and their Name().
AppModules == {"authA", "authB", "bankA"}

Name(m) == CASE m = "authA" -> "auth"
             [] m = "authB" -> "auth"
             [] m = "bankA" -> "bank"

\* Names a configuration may list as begin blockers.
BlockerNames == {"auth", "bank"}

\* container.ModuleKey names handed to the store-key providers.
ModuleKeys == {"auth"}

\* Errors LoadLatestVersion of the engine may return.
LoadErrors == {"io", "corrupt"}

\* Sequences over S of length at most n.
SeqsUpTo(S, n) == UNION {[1..k -> S] : k \in 0..n}

\* ----------------------------------------------------------------- errors
\* An error value is its format string and the argument formatted into it.
nil == [msg |-> "nil", arg |-> ""]

errModuleExists(name) == [msg |-> "module named %q already exists", arg |-> name]

errNotCreated == [msg |-> "app not created yet, can't finish", arg |-> ""]

errNoBlocker(blocker) ==
    [msg |-> "can't find module named %q registered as a begin blocker", arg |-> blocker]

errLoad(e) == [msg |-> "LoadLatestVersion", arg |-> e]

panicErr(site) == [msg |-> "panic", arg |-> site]

\* ------------------------------------------------------------------ state
VARIABLES
    builder,    \* the appBuilder: storeKeys, interfaceRegistry, cdc, amino
    modules,    \* AppCreator.modules: map from module name to wrapped module
    app,        \* AppCreator.app: the App built by Create, noApp while nil
    config,     \* AppCreator.config: the runtimev1.Module record
    ret,        \* the last call made: the function called and its results
    finished,   \* TRUE once a call of Finish has returned nil
    factories,  \* provider registry: map from provider key to its dependencies
    instances,  \* provider registry: the keys whose instance is memoized
    invocations,\* provider registry: how often each key's factory has run
    stack,      \* provider registry: the resolutions in progress, outermost first
    regRet      \* provider registry: the last register / resolve and its result

creatorVars == <<builder, modules, app, config, ret, finished>>

registryVars == <<factories, instances, invocations, stack, regRet>>

vars == <<builder, modules, app, config, ret, finished,
          factories, instances, invocations, stack, regRet>>

\* The nil *App.
noApp == [id |-> 0, interfaceRegistry |-> ""]

noKey == [kind |-> "", name |-> ""]

\* The record of one call: op is the function called, err the error returned
\* (or the panic raised), app the id of the App returned, storeKey the key
\* returned, and loads the results of the LoadLatestVersion calls the call
\* made on the engine.
Call(op, err, appId, storeKey, loads) ==
    [op |-> op, err |-> err, app |-> appId, storeKey |-> storeKey, loads |-> loads]

noCall == Call("", nil, 0, noKey, <<>>)

\* ------------------------------------------------------------- appBuilder
\* registerStoreKey skipping a key the builder already holds.
registerStoreKeyDedupe(b, key) ==
    IF \E i \in 1..Len(b.storeKeys) : b.storeKeys[i] = key
    THEN b
    ELSE [b EXCEPT !.storeKeys = Append(b.storeKeys, key)]

\* registerStoreKey putting the new key in front.
registerStoreKeyPrepend(b, key) ==
    [b EXCEPT !.storeKeys = <<key>> \o b.storeKeys]

registerStoreKey(b, key) ==
    [b EXCEPT !.storeKeys = Append(b.storeKeys, key)]

provideBuilder ==
    LET interfaceRegistry == "interfaceRegistry#1"
        cdc               == "protoCodec#1"
        amino             == "legacyAmino#1"
        b == [storeKeys         |-> <<>>,
              interfaceRegistry |-> interfaceRegistry,
              cdc               |-> cdc,
              amino             |-> amino]
    IN  [InterfaceRegistry |-> interfaceRegistry,
         Codec             |-> cdc,
         LegacyAmino       |-> amino,
         Builder           |-> b]

\* storetypes.NewKVStoreKey / NewTransientStoreKey / NewMemoryStoreKey
NewStoreKey(kind, name) == [kind |-> kind, name |-> name]

provideStoreKey(kind, key) ==
    /\ Len(builder.storeKeys) < MaxKeys
    /\ LET storeKey == NewStoreKey(kind, key)
       IN  /\ builder' = registerStoreKey(builder, storeKey)
           /\ ret' = Call(kind, nil, 0, storeKey, <<>>)
    /\ UNCHANGED <<modules, app, config, finished, registryVars>>

provideKVStoreKey(key) == provideStoreKey("provideKVStoreKey", key)

provideTransientStoreKey(key) == provideStoreKey("provideTransientStoreKey", key)

provideMemoryStoreKey(key) == provideStoreKey("provideMemoryStoreKey", key)

\* ------------------------------------------------------------- AppCreator
\* registerModule without the lookup: the new module replaces the old one.
registerModuleOverwrite(mods, appModule) ==
    [modules |-> [n \in DOMAIN mods \cup {Name(appModule)} |->
                     IF n = Name(appModule) THEN appModule ELSE mods[n]],
     err |-> nil]

\* One iteration of the loop of RegisterModules on the map mods.
registerModule(mods, appModule) ==
    IF Name(appModule) \in DOMAIN mods
    THEN [modules |-> mods, err |-> errModuleExists(Name(appModule))]
    ELSE [modules |-> [n \in DOMAIN mods \cup {Name(appModule)} |->
                          IF n = Name(appModule) THEN appModule ELSE mods[n]],
          err |-> nil]

\* The loop returning nil right after its first insert.
registerLoopFirstOnly(mods, ms) ==
    IF ms = <<>> THEN [modules |-> mods, err |-> nil]
    ELSE registerModule(mods, Head(ms))

\* The loop made atomic: a call that fails leaves the map as it found it.
registerLoopAtomic(mods, ms) ==
    LET n == Len(ms)
        dup(i) == \/ Name(ms[i]) \in DOMAIN mods
                  \/ \E j \in 1..(i - 1) : Name(ms[j]) = Name(ms[i])
    IN  IF \E i \in 1..n : dup(i)
        THEN [modules |-> mods,
              err |-> errModuleExists(Name(ms[CHOOSE i \in 1..n :
                          dup(i) /\ \A j \in 1..(i - 1) : ~dup(j)]))]
        ELSE [modules |-> [nm \in DOMAIN mods \cup {Name(ms[i]) : i \in 1..n} |->
                              IF nm \in DOMAIN mods THEN mods[nm]
                              ELSE ms[CHOOSE i \in 1..n : Name(ms[i]) = nm]],
              err |-> nil]

RECURSIVE registerLoop(_, _)
registerLoop(mods, ms) ==
    IF ms = <<>> THEN [modules |-> mods, err |-> nil]
    ELSE LET r == registerModule(mods, Head(ms))
         IN  IF r.err # nil THEN r ELSE registerLoop(r.modules, Tail(ms))

\* RegisterModules refusing every call once the App exists.
RegisterModulesBeforeCreate(ms) ==
    /\ LET r == IF app # noApp
                THEN [modules |-> modules, err |-> errNotCreated]
                ELSE registerLoop(modules, ms)
       IN  /\ modules' = r.modules
           /\ ret' = Call("RegisterModules", r.err, 0, noKey, <<>>)
    /\ UNCHANGED <<builder, app, config, finished, registryVars>>

RegisterModules(ms) ==
    /\ LET r == registerLoop(modules, ms)
       IN  /\ modules' = r.modules
           /\ ret' = Call("RegisterModules", r.err, 0, noKey, <<>>)
    /\ UNCHANGED <<builder, app, config, finished, registryVars>>

\* The places where Create panics, in the order the code reaches them.
PanicSites == {"GetPruningOptionsFromFlags", "dbm.NewDB", "snapshots.NewStore"}

\* newApp binding the engine to an interface registry of its own.
newAppOwnRegistry(prev, b) ==
    [id |-> prev.id + 1, interfaceRegistry |-> "interfaceRegistry#2"]

\* The App Create builds: a fresh object bound to the builder's registry.
newApp(prev, b) ==
    [id |-> prev.id + 1, interfaceRegistry |-> b.interfaceRegistry]

\* Create storing the App in the creator before the steps that may panic.
CreateAssignFirst(outcome) ==
    /\ app.id < MaxApps
    /\ app' = newApp(app, builder)
    /\ ret' = IF outcome \in PanicSites
              THEN Call("Create", panicErr(outcome), 0, noKey, <<>>)
              ELSE Call("Create", nil, app'.id, noKey, <<>>)
    /\ UNCHANGED <<builder, modules, config, finished, registryVars>>

\* outcome is "ok" or the site that panics.
Create(outcome) ==
    /\ app.id < MaxApps
    /\ IF outcome \in PanicSites
       THEN /\ app' = app
            /\ ret' = Call("Create", panicErr(outcome), 0, noKey, <<>>)
       ELSE /\ app' = newApp(app, builder)
            /\ ret' = Call("Create", nil, app'.id, noKey, <<>>)
    /\ UNCHANGED <<builder, modules, config, finished, registryVars>>

\* checkBlockers with the test inverted: a registered blocker is reported.
checkBlockersInverted(blockers, mods) ==
    IF \E i \in 1..Len(blockers) : blockers[i] \in DOMAIN mods
    THEN errNoBlocker(blockers[CHOOSE i \in 1..Len(blockers) :
                                   /\ blockers[i] \in DOMAIN mods
                                   /\ \A j \in 1..(i - 1) : blockers[j] \notin DOMAIN mods])
    ELSE nil

\* The loop of Finish over config.BeginBlockers.
RECURSIVE checkBlockers(_, _)
checkBlockers(blockers, mods) ==
    IF blockers = <<>> THEN nil
    ELSE IF Head(blockers) \notin DOMAIN mods
         THEN errNoBlocker(Head(blockers))
         ELSE checkBlockers(Tail(blockers), mods)

\* finish without the nil test on the App.
finishNoNilCheck(a, mods, blockers, loadLatest, loadResult) ==
    IF checkBlockers(blockers, mods) # nil
    THEN [err |-> checkBlockers(blockers, mods), loads |-> <<>>]
    ELSE IF loadLatest
         THEN [err |-> loadResult, loads |-> <<loadResult>>]
         ELSE [err |-> nil, loads |-> <<>>]

\* finish without the loop over the begin blockers.
finishNoBlockerCheck(a, mods, blockers, loadLatest, loadResult) ==
    IF a = noApp THEN [err |-> errNotCreated, loads |-> <<>>]
    ELSE IF loadLatest
         THEN [err |-> loadResult, loads |-> <<loadResult>>]
         ELSE [err |-> nil, loads |-> <<>>]

\* finish wrapping the engine's error in an error of its own.
finishWrapLoadError(a, mods, blockers, loadLatest, loadResult) ==
    IF a = noApp THEN [err |-> errNotCreated, loads |-> <<>>]
    ELSE IF checkBlockers(blockers, mods) # nil
         THEN [err |-> checkBlockers(blockers, mods), loads |-> <<>>]
         ELSE IF loadLatest
              THEN [err |-> IF loadResult = nil THEN nil
                            ELSE [msg |-> "failed to load latest version: %w",
                                  arg |-> loadResult.arg],
                    loads |-> <<loadResult>>]
              ELSE [err |-> nil, loads |-> <<>>]

\* finish loading the engine before it looks at the begin blockers.
finishLoadFirst(a, mods, blockers, loadLatest, loadResult) ==
    IF a = noApp THEN [err |-> errNotCreated, loads |-> <<>>]
    ELSE IF loadLatest /\ loadResult # nil
         THEN [err |-> loadResult, loads |-> <<loadResult>>]
         ELSE IF checkBlockers(blockers, mods) # nil
              THEN [err |-> checkBlockers(blockers, mods),
                    loads |-> IF loadLatest THEN <<loadResult>> ELSE <<>>]
              ELSE [err |-> nil, loads |-> IF loadLatest THEN <<loadResult>> ELSE <<>>]

\* The result of Finish(loadLatest) on creator handle a, registry mods and
\* blockers, when LoadLatestVersion would return loadResult: the error
\* returned and the calls made on the engine.
finish(a, mods, blockers, loadLatest, loadResult) ==
    IF a = noApp THEN [err |-> errNotCreated, loads |-> <<>>]
    ELSE IF checkBlockers(blockers, mods) # nil
         THEN [err |-> checkBlockers(blockers, mods), loads |-> <<>>]
         ELSE IF loadLatest
              THEN [err |-> loadResult, loads |-> <<loadResult>>]
              ELSE [err |-> nil, loads |-> <<>>]

\* Finish dropping the App when the load fails.
FinishDropAppOnError(loadLatest, loadResult) ==
    /\ LET r == finish(app, modules, config.BeginBlockers, loadLatest, loadResult)
       IN  /\ ret' = Call("Finish", r.err, 0, noKey, r.loads)
           /\ finished' = (finished \/ r.err = nil)
           /\ app' = IF r.loads # <<>> /\ r.err # nil THEN noApp ELSE app
    /\ UNCHANGED <<builder, modules, config, registryVars>>

Finish(loadLatest, loadResult) ==
    /\ LET r == finish(app, modules, config.BeginBlockers, loadLatest, loadResult)
       IN  /\ ret' = Call("Finish", r.err, 0, noKey, r.loads)
           /\ finished' = (finished \/ r.err = nil)
    /\ UNCHANGED <<builder, modules, app, config, registryVars>>

\* provideApp: the creator over the builder, the configuration and the map.
provideApp(cfg, b, mods) == [config |-> cfg, builder |-> b, modules |-> mods, app |-> noApp]

Configs == [AppName : {"app"}, BeginBlockers : SeqsUpTo(BlockerNames, MaxHooks)]

emptyMap == [n \in {} |-> "authA"]

\* ------------------------------------------------------ provider registry
\* A provider key: a capability type and an optional scope (a module).
ProviderKeys == {[type |-> "appBuilder", scope |-> ""],
                 [type |-> "StoreKey", scope |-> "auth"],
                 [type |-> "StoreKey", scope |-> "bank"]}

errDuplicateProvider(k) == [msg |-> "DuplicateProviderError", arg |-> k]

errCyclicDependency(k) == [msg |-> "CyclicDependencyError", arg |-> k]

\* Resolving a key nobody registered a factory for; the contract names no
\* error for it.
errNoProvider(k) == [msg |-> "no provider", arg |-> k]

noFactories == [k \in {} |-> {}]

RegCall(op, key, err) == [op |-> op, key |-> key, err |-> err]

noRegCall == RegCall("", [type |-> "", scope |-> ""], nil)

\* register replacing the factory a key already has.
registerOverwrite(facs, k, deps) ==
    [factories |-> [x \in DOMAIN facs \cup {k} |-> IF x = k THEN deps ELSE facs[x]],
     err |-> nil]

\* register(capability-type, scope, factory) on the table facs; deps are the
\* keys the factory declares as its dependencies.
register(facs, k, deps) ==
    IF k \in DOMAIN facs
    THEN [factories |-> facs, err |-> errDuplicateProvider(k)]
    ELSE [factories |-> [x \in DOMAIN facs \cup {k} |-> IF x = k THEN deps ELSE facs[x]],
          err |-> nil]

Register(k, deps) ==
    /\ stack = <<>>
    /\ LET r == register(factories, k, deps)
       IN  /\ factories' = r.factories
           /\ regRet' = RegCall("register", k, r.err)
    /\ UNCHANGED <<instances, invocations, stack, creatorVars>>

\* The keys whose resolution is in progress.
InProgress(stk) == {stk[i].key : i \in 1..Len(stk)}

\* visit without the memo: a resolved key is resolved again.
visitNoMemo(d, stk, inst, facs) ==
    IF d \in InProgress(stk) THEN "cycle"
    ELSE IF d \notin DOMAIN facs THEN "missing"
    ELSE "descend"

\* visit taking a key whose resolution is in progress for a resolved one.
visitCycleAsResolved(d, stk, inst, facs) ==
    IF d \in inst \/ d \in InProgress(stk) THEN "resolved"
    ELSE IF d \notin DOMAIN facs THEN "missing"
    ELSE "descend"

\* What resolve does with key d: use the memoized instance, report a cycle
\* (d is in progress), fail (no factory), or resolve d's dependencies first.
visit(d, stk, inst, facs) ==
    IF d \in inst THEN "resolved"
    ELSE IF d \in InProgress(stk) THEN "cycle"
    ELSE IF d \notin DOMAIN facs THEN "missing"
    ELSE "descend"

Frame(k, facs) == [key |-> k, todo |-> facs[k]]

\* resolve(k) is called: it returns at once on a memoized or unknown key,
\* and otherwise starts on the dependencies of k.
Resolve(k) ==
    /\ stack = <<>>
    /\ LET v == visit(k, stack, instances, factories)
       IN  /\ stack' = IF v = "descend" THEN <<Frame(k, factories)>> ELSE <<>>
           /\ regRet' = IF v = "resolved" THEN RegCall("resolve", k, nil)
                        ELSE IF v = "missing" THEN RegCall("resolve", k, errNoProvider(k))
                        ELSE regRet
    /\ UNCHANGED <<factories, instances, invocations, creatorVars>>

\* The resolution on top of the stack turns to its dependency d.
VisitDependency(d) ==
    /\ stack # <<>>
    /\ LET n   == Len(stack)
           top == stack[n]
           v   == visit(d, stack, instances, factories)
           rest == [stack EXCEPT ![n].todo = top.todo \ {d}]
       IN  /\ d \in top.todo
           /\ stack' = IF v = "resolved" THEN rest
                       ELSE IF v = "descend" THEN Append(rest, Frame(d, factories))
                       ELSE <<>>
           /\ regRet' = IF v = "cycle"
                        THEN RegCall("resolve", stack[1].key, errCyclicDependency(d))
                        ELSE IF v = "missing"
                        THEN RegCall("resolve", stack[1].key, errNoProvider(d))
                        ELSE regRet
    /\ UNCHANGED <<factories, instances, invocations, creatorVars>>

\* Every dependency of the resolution on top is resolved: its factory is
\* invoked, the instance memoized, and the resolution returns.
InvokeFactory ==
    /\ stack # <<>>
    /\ LET n   == Len(stack)
           top == stack[n]
       IN  /\ top.todo = {}
           /\ invocations' = [invocations EXCEPT ![top.key] = @ + 1]
           /\ instances' = instances \cup {top.key}
           /\ stack' = SubSeq(stack, 1, n - 1)
           /\ regRet' = IF n = 1 THEN RegCall("resolve", top.key, nil) ELSE regRet
    /\ UNCHANGED <<factories, creatorVars>>

ResolveStep == InvokeFactory \/ \E d \in ProviderKeys : VisitDependency(d)

InitProviders ==
    /\ factories = noFactories
    /\ instances = {}
    /\ invocations = [k \in ProviderKeys |-> 0]
    /\ stack = <<>>
    /\ regRet = noRegCall

\* -------------------------------------------------------------- behaviour
Init ==
    /\ \E cfg \in Configs :
         LET a == provideApp(cfg, provideBuilder.Builder, emptyMap)
         IN  /\ builder = a.builder
             /\ modules = a.modules
             /\ app = a.app
             /\ config = a.config
    /\ ret = noCall
    /\ finished = FALSE
    /\ InitProviders

LoadResults == {nil} \cup {errLoad(e) : e \in LoadErrors}

Next ==
    \/ \E ms \in SeqsUpTo(AppModules, MaxCall) : RegisterModules(ms)
    \/ \E outcome \in {"ok"} \cup PanicSites : Create(outcome)
    \/ Finish(FALSE, nil)
    \/ \E loadResult \in LoadResults : Finish(TRUE, loadResult)
    \/ \E key \in ModuleKeys : provideKVStoreKey(key)
    \/ \E key \in ModuleKeys : provideTransientStoreKey(key)
    \/ \E key \in ModuleKeys : provideMemoryStoreKey(key)

Spec == Init /\ [][Next]_vars

\* The calls on the AppCreator alone: no store key is requested.
NextCreator ==
    \/ \E ms \in SeqsUpTo(AppModules, MaxCall) : RegisterModules(ms)
    \/ \E outcome \in {"ok"} \cup PanicSites : Create(outcome)
    \/ Finish(FALSE, nil)
    \/ \E loadResult \in LoadResults : Finish(TRUE, loadResult)

SpecCreator == Init /\ [][NextCreator]_vars

InitRegistry ==
    /\ LET a == provideApp([AppName |-> "app", BeginBlockers |-> <<>>],
                           provideBuilder.Builder, emptyMap)
       IN  /\ builder = a.builder
           /\ modules = a.modules
           /\ app = a.app
           /\ config = a.config
    /\ ret = noCall
    /\ finished = FALSE
    /\ InitProviders

NextRegistry ==
    \/ \E k \in ProviderKeys, deps \in SUBSET ProviderKeys : Register(k, deps)
    \/ \E k \in ProviderKeys : Resolve(k)
    \/ \E d \in ProviderKeys : VisitDependency(d)
    \/ InvokeFactory

SpecRegistry == InitRegistry /\ [][NextRegistry]_vars

\* A resolve call runs to its end: the assembly is one synchronous thread.
SpecRegistryFair == SpecRegistry /\ WF_vars(ResolveStep)

\* ----------------------------------------------------------------- claims
\* Arguments of one RegisterModules call.
CallArgs == SeqsUpTo(AppModules, MaxCall)

ProviderOps == {"provideKVStoreKey", "provideTransientStoreKey", "provideMemoryStoreKey"}

\* Every declared begin blocker is in the module map.
AllResolved == \A i \in 1..Len(config.BeginBlockers) : config.BeginBlockers[i] \in DOMAIN modules

\* The first declared begin blocker that is not in the module map.
FirstAbsent ==
    config.BeginBlockers[CHOOSE i \in 1..Len(config.BeginBlockers) :
        /\ config.BeginBlockers[i] \notin DOMAIN modules
        /\ \A j \in 1..(i - 1) : config.BeginBlockers[j] \in DOMAIN modules]

\* C1: a RegisterModules call that presents a module whose name is already in
\* the module map returns the "already exists" error for a name of the call,
\* and every name registered before the call still maps to the module first
\* registered under it.
C1_DuplicateRejected ==
    [][\A ms \in CallArgs :
         RegisterModules(ms) =>
           /\ (\E i \in 1..Len(ms) : Name(ms[i]) \in DOMAIN modules) =>
                 ret'.err \in {errModuleExists(Name(ms[i])) : i \in 1..Len(ms)}
           /\ \A n \in DOMAIN modules : n \in DOMAIN modules' /\ modules'[n] = modules[n]]_vars

\* A duplicate of "auth" was refused after authB had been registered first.
C1_Witness ==
    /\ ret.op = "RegisterModules"
    /\ ret.err = errModuleExists("auth")
    /\ "auth" \in DOMAIN modules
    /\ modules["auth"] = "authB"

\* C2: Finish called while the App is nil returns the "not created" error,
\* for either value of loadLatest and any configuration, and leaves the
\* module map as it was.
C2_FinishBeforeCreate ==
    [][\A loadLatest \in BOOLEAN, loadResult \in LoadResults :
         (app = noApp /\ Finish(loadLatest, loadResult)) =>
             (ret'.err = errNotCreated /\ ret'.loads = <<>> /\ modules' = modules)]_vars

\* Finish was refused on a creator that has modules but no App.
C2_Witness ==
    /\ ret.op = "Finish"
    /\ ret.err = errNotCreated
    /\ app = noApp
    /\ DOMAIN modules = {"auth", "bank"}
    /\ config.BeginBlockers = <<"auth", "bank">>

\* C3: after Create, when the begin-blocker list names a module absent from
\* the module map, Finish returns the "can't find module" error naming the
\* first such name, and the creator does not become finished.
C3_UnknownBlocker ==
    [][\A loadLatest \in BOOLEAN, loadResult \in LoadResults :
         (app # noApp /\ ~AllResolved /\ Finish(loadLatest, loadResult)) =>
             /\ ret'.err = errNoBlocker(FirstAbsent)
             /\ ~finished'
             /\ app' = app]_vars

\* Blockers auth and bank, only auth registered: Finish named bank.
C3_Witness ==
    /\ ret.op = "Finish"
    /\ ret.err = errNoBlocker("bank")
    /\ app # noApp
    /\ DOMAIN modules = {"auth"}
    /\ config.BeginBlockers = <<"auth", "bank">>
    /\ ~finished

\* C4: when the App exists and every declared begin blocker is in the module
\* map, Finish(false) returns nil and the creator is finished.
C4_FinishSucceeds ==
    [][(app # noApp /\ AllResolved /\ Finish(FALSE, nil)) =>
           (ret'.err = nil /\ ret'.loads = <<>> /\ finished')]_vars

\* Modules bank and auth, blockers auth then bank, Create, Finish(false).
C4_Witness ==
    /\ ret.op = "Finish"
    /\ ret.err = nil
    /\ ret.loads = <<>>
    /\ finished
    /\ DOMAIN modules = {"auth", "bank"}
    /\ config.BeginBlockers = <<"auth", "bank">>

\* C5: once a call of Finish has returned nil, every later call of Finish
\* returns an error.
C5_FinishAtMostOnce ==
    [][(finished /\ ret'.op = "Finish") => ret'.err # nil]_vars

\* C6: the App held by the creator is set at most once: once it is not nil,
\* no step replaces it.
C6_CreateOnce ==
    [][app # noApp => app' = app]_vars

C8_LoadErrorPropagates ==
    [][/\ \A loadResult \in LoadResults \ {nil} :
            (app # noApp /\ AllResolved /\ Finish(TRUE, loadResult)) =>
                /\ ret'.err = loadResult
                /\ ret'.loads = <<loadResult>>
                /\ finished' = finished
                /\ app' = app
       /\ (/\ ret.op = "Finish"
           /\ ret.loads # <<>>
           /\ ret.err \in LoadResults \ {nil}
           /\ Finish(TRUE, nil)) =>
                (ret'.err = nil /\ finished')]_vars

\* Finish(true) failed with the engine's "io" error on an unfinished creator.
C8_Witness ==
    /\ ret.op = "Finish"
    /\ ret.err = errLoad("io")
    /\ ret.loads = <<errLoad("io")>>
    /\ app # noApp
    /\ ~finished
    /\ config.BeginBlockers = <<"auth", "bank">>

\* C9: the builder starts with no store key, every call of a store-key
\* provider adds exactly one, whatever the module key, and no other call
\* changes the count: the number of keys is the number of provider calls.
C9_OneKeyPerCall ==
    /\ Len(builder.storeKeys) = 0
    /\ [][Len(builder'.storeKeys) =
            Len(builder.storeKeys) + (IF ret'.op \in ProviderOps THEN 1 ELSE 0)]_vars

\* The same provider was called twice with the same module key.
C9_Witness ==
    /\ Len(builder.storeKeys) = 2
    /\ builder.storeKeys[1] = builder.storeKeys[2]
    /\ ret.op \in ProviderOps

\* C10: across every call the old sequence of store keys is a prefix of the
\* new one, and the key a provider returns is the one it put last.
C10_AppendOnly ==
    [][/\ Len(builder.storeKeys) <= Len(builder'.storeKeys)
       /\ SubSeq(builder'.storeKeys, 1, Len(builder.storeKeys)) = builder.storeKeys
       /\ ret'.op \in ProviderOps =>
            builder'.storeKeys[Len(builder'.storeKeys)] = ret'.storeKey]_vars

\* Two different keys were requested and the creator was then used.
C10_Witness ==
    /\ Len(builder.storeKeys) = 2
    /\ builder.storeKeys[1].kind = "provideKVStoreKey"
    /\ builder.storeKeys[2].kind = "provideMemoryStoreKey"
    /\ ret.op = "Finish"
    /\ finished
    /\ modules # emptyMap

\* C11: once Create has built the App, no call (and no store-key provider
\* in particular) changes the builder's sequence of store keys.
C11_BuilderFrozenAfterCreate ==
    [][app # noApp => builder'.storeKeys = builder.storeKeys]_vars

\* C12: the interface registry, the codec and the legacy amino codec held by
\* the builder are the instances provideBuilder exported, in every state, and
\* the registry the App was bound to by Create is that same instance.
C12_SharedInstances ==
    /\ builder.interfaceRegistry = provideBuilder.InterfaceRegistry
    /\ builder.cdc = provideBuilder.Codec
    /\ builder.amino = provideBuilder.LegacyAmino
    /\ app # noApp => app.interfaceRegistry = provideBuilder.InterfaceRegistry

\* Two store keys were provided and a second App was built over the builder.
C12_Witness ==
    /\ app.id = 2
    /\ app.interfaceRegistry = builder.interfaceRegistry
    /\ Len(builder.storeKeys) = 2
    /\ ret.op = "Create"
    /\ ret.err = nil

\* C13: a Create that panics at one of its three sites returns no App and
\* leaves the creator's App as it was; on a creator that had none, a Finish
\* made next reports "not created".
C13_CreatePanicKeepsNoApp ==
    [][/\ \A site \in PanicSites :
            Create(site) =>
                (ret'.err = panicErr(site) /\ ret'.app = 0 /\ app' = app)
       /\ (/\ ret.op = "Create"
           /\ ret.err \in {panicErr(site) : site \in PanicSites}
           /\ app = noApp
           /\ ret'.op = "Finish") => ret'.err = errNotCreated]_vars

\* Create panicked opening the snapshot store; the creator has no App.
C13_Witness ==
    /\ ret.op = "Create"
    /\ ret.err = panicErr("snapshots.NewStore")
    /\ ret.app = 0
    /\ app = noApp
    /\ modules # emptyMap

\* The sequences that hold the modules of ms, each once, in some order.
Orders(ms) ==
    {p \in CallArgs : /\ Len(p) = Len(ms)
                      /\ {p[i] : i \in 1..Len(p)} = {ms[i] : i \in 1..Len(ms)}}

\* C14: a call registering modules with pairwise distinct names, none in the
\* module map, leaves the same map as registering them in any other order,
\* in one call or split into two, and so the same result of a later Finish.
C14_OrderIndependent ==
    [][\A ms \in CallArgs :
         (/\ \A i \in 1..Len(ms) : Name(ms[i]) \notin DOMAIN modules
          /\ \A i, j \in 1..Len(ms) : i # j => Name(ms[i]) # Name(ms[j])
          /\ RegisterModules(ms)) =>
             \A p \in Orders(ms), k \in 0..Len(ms) :
                LET first  == registerLoop(modules, SubSeq(p, 1, k))
                    second == registerLoop(first.modules, SubSeq(p, k + 1, Len(p)))
                IN  /\ first.err = nil
                    /\ second.err = ret'.err
                    /\ second.modules = modules'
                    /\ \A loadLatest \in BOOLEAN, loadResult \in LoadResults :
                         finish(newApp(app, builder), second.modules,
                                config.BeginBlockers, loadLatest, loadResult)
                         = finish(newApp(app, builder), modules',
                                  config.BeginBlockers, loadLatest, loadResult)]_vars

\* authB and bankA are registered and the creator finished over them.
C14_Witness ==
    /\ DOMAIN modules = {"auth", "bank"}
    /\ modules["auth"] = "authB"
    /\ modules["bank"] = "bankA"
    /\ config.BeginBlockers = <<"bank", "auth">>
    /\ finished

\* C18: Finish calls LoadLatestVersion, once, exactly when loadLatest is
\* true, the App exists and every declared begin blocker is in the module
\* map; a Finish that is refused, or has loadLatest false, calls it never.
C18_LoadOnlyAfterValidation ==
    [][\A loadLatest \in BOOLEAN, loadResult \in LoadResults :
         Finish(loadLatest, loadResult) =>
            /\ Len(ret'.loads) <= 1
            /\ ret'.loads # <<>> <=> (loadLatest /\ app # noApp /\ AllResolved)
            /\ ret'.err \in {errNotCreated} \cup {errNoBlocker(b) : b \in BlockerNames}
                  => ret'.loads = <<>>]_vars

\* Finish(true) loaded the engine after finding both blockers.
C18_Witness ==
    /\ ret.op = "Finish"
    /\ ret.loads = <<nil>>
    /\ ret.err = nil
    /\ config.BeginBlockers = <<"auth", "bank">>
    /\ DOMAIN modules = {"auth", "bank"}

\* The first module of ms whose name is in the map mods or earlier in ms.
FirstDuplicate(mods, ms) ==
    CHOOSE i \in 1..Len(ms) :
        /\ \/ Name(ms[i]) \in DOMAIN mods
           \/ \E j \in 1..(i - 1) : Name(ms[j]) = Name(ms[i])
        /\ \A k \in 1..(i - 1) :
              /\ Name(ms[k]) \notin DOMAIN mods
              /\ \A j \in 1..(k - 1) : Name(ms[j]) # Name(ms[k])

\* C19: a RegisterModules call that returns an error has added exactly the
\* modules listed before the first duplicate of the call, and neither the
\* duplicate nor a module after it.
C19_PartialRegistration ==
    [][\A ms \in CallArgs :
         (RegisterModules(ms) /\ ret'.err # nil) =>
            LET d == FirstDuplicate(modules, ms)
            IN  /\ ret'.err = errModuleExists(Name(ms[d]))
                /\ DOMAIN modules' = DOMAIN modules \cup {Name(ms[j]) : j \in 1..(d - 1)}
                /\ \A j \in 1..(d - 1) : modules'[Name(ms[j])] = ms[j]
                /\ \A n \in DOMAIN modules : modules'[n] = modules[n]]_vars

\* A call failed on "auth" with authA and bankA in the map.
C19_Witness ==
    /\ ret.op = "RegisterModules"
    /\ ret.err = errModuleExists("auth")
    /\ DOMAIN modules = {"auth", "bank"}
    /\ modules["auth"] = "authA"
    /\ app = noApp

\* C20: whatever Finish returns, it leaves the module map, the builder (its
\* store keys included) and the creator's App as they were.
C20_FinishFrame ==
    [][ret'.op = "Finish" =>
          (modules' = modules /\ builder' = builder /\ app' = app)]_vars

\* Finish failed on the load with modules, store keys and an App in place.
C20_Witness ==
    /\ ret.op = "Finish"
    /\ ret.err = errLoad("corrupt")
    /\ Len(builder.storeKeys) = 2
    /\ DOMAIN modules = {"auth", "bank"}
    /\ app.id = 1

\* C15: the factory of a key has run at most once, and exactly once for a
\* key whose instance is memoized, however often the key is resolved; a
\* factory is invoked only when each of its declared dependencies has an
\* instance; and a resolve that returns without error has the instance.
C15_FactoryOncePerKey ==
    /\ [](\A k \in ProviderKeys :
            /\ invocations[k] <= 1
            /\ (k \in instances) <=> (invocations[k] = 1))
    /\ [][/\ \A k \in ProviderKeys :
               invocations'[k] # invocations[k] =>
                   (k \in DOMAIN factories /\ factories[k] \subseteq instances)
          /\ (regRet'.op = "resolve" /\ stack' = <<>> /\ regRet'.err = nil) =>
               regRet'.key \in instances']_vars

\* The bank store key depends on the auth store key, which depends on the
\* builder; all three were resolved, the bank key last and on request.
C15_Witness ==
    /\ instances = ProviderKeys
    /\ DOMAIN factories = ProviderKeys
    /\ factories[[type |-> "StoreKey", scope |-> "bank"]] = {[type |-> "StoreKey", scope |-> "auth"]}
    /\ factories[[type |-> "StoreKey", scope |-> "auth"]] = {[type |-> "appBuilder", scope |-> ""]}
    /\ factories[[type |-> "appBuilder", scope |-> ""]] = {}
    /\ regRet = RegCall("resolve", [type |-> "StoreKey", scope |-> "bank"], nil)
    /\ \A k \in ProviderKeys : invocations[k] = 1
    /\ stack = <<>>

\* The declared dependencies of key k (none while k has no factory).
Deps(facs, k) == IF k \in DOMAIN facs THEN facs[k] ELSE {}

\* The keys reached from the keys of S along one or more dependencies.
RECURSIVE ReachFrom(_, _, _)
ReachFrom(facs, S, n) ==
    IF n = 0 THEN {}
    ELSE LET next == UNION {Deps(facs, k) : k \in S}
         IN  next \cup ReachFrom(facs, next, n - 1)

Reach(facs, k) == ReachFrom(facs, {k}, Cardinality(ProviderKeys))

\* The graph below k is declared completely and holds a cycle.
CycleBelow(facs, k) ==
    /\ ({k} \cup Reach(facs, k)) \subseteq DOMAIN facs
    /\ \E c \in {k} \cup Reach(facs, k) : c \in Reach(facs, c)

\* C16: every resolve that is in progress ends, whatever the declared
\* graph; and a resolve over a completely declared graph that holds a cycle
\* reachable from the requested key ends with the cyclic-dependency error.
C16_ResolveTerminates ==
    /\ (stack # <<>>) ~> (stack = <<>>)
    /\ [][(regRet'.op = "resolve" /\ stack' = <<>> /\ CycleBelow(factories, regRet'.key)) =>
             regRet'.err \in {errCyclicDependency(k) : k \in ProviderKeys}]_vars

\* Resolving the auth key ended on the cycle auth -> bank -> auth.
C16_Witness ==
    /\ stack = <<>>
    /\ regRet.op = "resolve"
    /\ regRet.key = [type |-> "StoreKey", scope |-> "auth"]
    /\ regRet.err = errCyclicDependency([type |-> "StoreKey", scope |-> "auth"])
    /\ DOMAIN factories = {[type |-> "StoreKey", scope |-> "auth"], [type |-> "StoreKey", scope |-> "bank"]}
    /\ factories[[type |-> "StoreKey", scope |-> "auth"]] = {[type |-> "StoreKey", scope |-> "bank"]}
    /\ factories[[type |-> "StoreKey", scope |-> "bank"]] = {[type |-> "StoreKey", scope |-> "auth"]}

\* C17: register on a key that already has a factory returns the
\* duplicate-provider error and leaves the table, the first factory
\* included, as it was; a key that has none gets the factory registered.
C17_DuplicateProvider ==
    [][\A k \in ProviderKeys, deps \in SUBSET ProviderKeys :
         Register(k, deps) =>
            IF k \in DOMAIN factories
            THEN regRet'.err = errDuplicateProvider(k) /\ factories' = factories
            ELSE /\ regRet'.err = nil
                 /\ DOMAIN factories' = DOMAIN factories \cup {k}
                 /\ factories'[k] = deps
                 /\ \A x \in DOMAIN factories : factories'[x] = factories[x]]_vars

\* A second factory for the auth store key was refused; the first, with its
\* dependency on the builder, is still the one registered.
C17_Witness ==
    /\ regRet = RegCall("register", [type |-> "StoreKey", scope |-> "auth"],
                        errDuplicateProvider([type |-> "StoreKey", scope |-> "auth"]))
    /\ [type |-> "StoreKey", scope |-> "auth"] \in DOMAIN factories
    /\ factories[[type |-> "StoreKey", scope |-> "auth"]] = {[type |-> "appBuilder", scope |-> ""]}
    /\ [type |-> "StoreKey", scope |-> "bank"] \in DOMAIN factories

====
